---- MODULE Spec2Model ----
(***************************************************************************)
(* Model of checker_pw.py: one scheduled invocation of main() after        *)
(* another over a durable State Store (three JSON files), the Telegram     *)
(* inbound stream (getUpdates / offset acknowledgment) and the sendMessage *)
(* transport, plus the pure message builder build_date_messages.           *)
(***************************************************************************)
EXTENDS Integers, Sequences, FiniteSets, TLC

VARIABLES
    MAX_MSG_CHARS,            \* configuration read at start-up (line 35)
    MAX_SLOTS_PER_DATE_SHOWN, \* configuration read at start-up (line 32)
    EARLIEST_HOUR,            \* configuration read at start-up (line 17)
    LATEST_HOUR,              \* configuration read at start-up (line 18)
    WEEKENDS_OK,              \* configuration read at start-up (line 19)
    WEEKDAYS_OK,              \* configuration read at start-up (line 20)
    world,                    \* what the environment may do: failing operations, senders
    today,                    \* dt.date.today(), as a day number
    calendar,                 \* the slots the booking calendar offers
    pages,                    \* per date: the start times its page yields, in page order
    stream,                   \* Telegram inbound updates; update_id = index
    confirmed,                \* server side: update_ids <= confirmed are forgotten
    targetsFile,              \* state/targets.json
    cursorFile,               \* state/tg_last_update.json
    slotsFile,                \* state/notified_slots.json
    pc,                       \* position of the running invocation
    targets,                  \* main/handle_commands local
    notify_ids,               \* handle_commands local, returned to main
    updates,                  \* handle_commands local: update_ids still to handle
    max_id,                   \* handle_commands local
    by_date,                  \* main local: the target-filtered slots
    pending,                  \* main local: dates of by_date not yet sent
    counts,                   \* main local: in-memory counters
    sent_any,                 \* main local
    eligible,                 \* main local: eligible entries of the last date
    messages,                 \* main local: result of build_date_messages
    hist                      \* observation record (history only, never read by the code)

vars == << MAX_MSG_CHARS, MAX_SLOTS_PER_DATE_SHOWN, EARLIEST_HOUR, LATEST_HOUR,
           WEEKENDS_OK, WEEKDAYS_OK, world, today, calendar, pages, stream,
           confirmed, targetsFile, cursorFile, slotsFile, pc, targets, notify_ids,
           updates, max_id, by_date, pending, counts, sent_any, eligible,
           messages, hist >>

(***************************************************************************)
(* Bounds of the model.                                                    *)
(***************************************************************************)
MaxRuns     == 3    \* invocations of main()
MaxArrivals == 1    \* updates arriving after deployment
MaxEntries  == 12   \* eligible entries handed to the message builder alone
MaxYield    == 3    \* records one page yields, duplicates included
SCAN_DAYS   == 2    \* the SCAN_DAYS setting: days scanned after today

(***************************************************************************)
(* Program constants.                                                      *)
(***************************************************************************)
NOTIFY_LIMIT_PER_SLOT == 2
DefaultMaxSlotsShown  == 10
DefaultMaxMsgChars    == 3500
GetUpdatesLimit       == 100
DefaultEarliestHour   == 0
DefaultLatestHour     == 24
FAST_FORWARD_UPDATES  == TRUE
HeaderBaseLen == 35   \* len("Padel availability — YYYY-MM-DD (") + len(")\n")
LineLen       == 173  \* len("• HH:MM — Padel Tennis\n  " + url), default ACTIVITY_ID
ContinuedLen  == 12   \* len("(continued)\n")
MoreBaseLen   == 10   \* len("…and " + " more")

Min(a, b) == IF a < b THEN a ELSE b
Max(a, b) == IF a > b THEN a ELSE b

(***************************************************************************)
(* Message building: build_date_messages, computed on lengths.             *)
(* A slot is <<date, time>>; times are ordered like their HH:MM strings.   *)
(***************************************************************************)
NoSlot == << 0, 0 >>

\* len(d.strftime("%A")) for day number d (day 0 is a Monday)
DayNameLen(d) ==
    CASE d % 7 = 0 -> 6  \* Monday
      [] d % 7 = 1 -> 7  \* Tuesday
      [] d % 7 = 2 -> 9  \* Wednesday
      [] d % 7 = 3 -> 8  \* Thursday
      [] d % 7 = 4 -> 6  \* Friday
      [] d % 7 = 5 -> 8  \* Saturday
      [] OTHER     -> 6  \* Sunday

HeaderLen(d) == HeaderBaseLen + DayNameLen(d)

Digits(n) == IF n < 10 THEN 1 ELSE IF n < 100 THEN 2 ELSE 3

\* the break of line 400 taken one entry late
SlotLinesLate(entries) ==
    LET total == Len(entries)
        shown == Min(total, MAX_SLOTS_PER_DATE_SHOWN + 1)
        slotLines == [i \in 1..shown |-> [slot |-> entries[i], len |-> LineLen]]
    IN  IF total > MAX_SLOTS_PER_DATE_SHOWN
        THEN Append(slotLines,
                    [slot |-> NoSlot,
                     len  |-> MoreBaseLen + Digits(total - MAX_SLOTS_PER_DATE_SHOWN)])
        ELSE slotLines

\* lines 397-403: one line per shown entry, then the "…and N more" summary
SlotLines(entries) ==
    LET total == Len(entries)
        shown == Min(total, MAX_SLOTS_PER_DATE_SHOWN)
        slotLines == [i \in 1..shown |-> [slot |-> entries[i], len |-> LineLen]]
    IN  IF total > MAX_SLOTS_PER_DATE_SHOWN
        THEN Append(slotLines,
                    [slot |-> NoSlot,
                     len  |-> MoreBaseLen + Digits(total - MAX_SLOTS_PER_DATE_SHOWN)])
        ELSE slotLines

\* cur.rstrip(): cur always ends with exactly one "\n"
Closed(cur) == [len |-> cur.len - 1, lines |-> cur.lines]

\* lines 405-410: the chunking loop over lines[i..]
RECURSIVE Chunk(_, _, _, _, _)
Chunk(lines, i, hdr, msgs, cur) ==
    IF i > Len(lines) THEN << msgs, cur >>
    ELSE IF cur.len + lines[i].len + 1 > MAX_MSG_CHARS
         THEN Chunk(lines, i + 1, hdr, Append(msgs, Closed(cur)),
                    [len   |-> hdr + ContinuedLen + lines[i].len + 1,
                     lines |-> << lines[i] >>])
         ELSE Chunk(lines, i + 1, hdr, msgs,
                    [len   |-> cur.len + lines[i].len + 1,
                     lines |-> Append(cur.lines, lines[i])])

\* lines 394-412
build_date_messages(date_iso, entries) ==
    LET hdr == HeaderLen(date_iso)
        r   == Chunk(SlotLines(entries), 1, hdr, << >>,
                     [len |-> hdr, lines |-> << >>])
    IN  Append(r[1], Closed(r[2]))

(***************************************************************************)
(* State Store: _read_json / _write_json and the three typed records.      *)
(* A file is [readable, data]; a missing file and a file that does not     *)
(* parse as JSON both make _read_json return the default.                  *)
(***************************************************************************)
None == -1                      \* last_update_id None / offset None
NoCounts == [k \in {} |-> 0]    \* the empty dict

WriteOutcomes == {"ok", "unchanged", "torn"}

\* lines 104-110
_read_json(file, default) == IF file.readable THEN file.data ELSE default

\* lines 112-116: write_text truncates and then writes; an exception before
\* the truncation leaves the old file, one after it leaves an unparsable file;
\* both make _write_json return False.
_write_json(file, data, default, outcome) ==
    CASE outcome = "ok"        -> [readable |-> TRUE, data |-> data]
      [] outcome = "unchanged" -> file
      [] OTHER                 -> [readable |-> FALSE, data |-> default]

load_targets         == _read_json(targetsFile, {})
load_last_update_id  == _read_json(cursorFile, None)
load_notified_slots  == _read_json(slotsFile, NoCounts)
save_targets(dates, o)        == _write_json(targetsFile, dates, {}, o)
save_last_update_id(val, o)   == _write_json(cursorFile, val, None, o)
save_notified_slots(cnts, o)  == _write_json(slotsFile, cnts, NoCounts, o)

\* counts.get(key, 0)
Get(cnts, key) == IF key \in DOMAIN cnts THEN cnts[key] ELSE 0

(***************************************************************************)
(* Telegram: getUpdates returns at most `limit` unconfirmed updates with   *)
(* update_id >= offset, oldest first; a call with an offset confirms every *)
(* update below the offset.                                                *)
(***************************************************************************)
Ids(lo, hi) == [i \in 1..(hi - lo + 1) |-> lo + i - 1]

\* lines 83-91: the "result" of a successful call
tg_get_updates(offset) ==
    LET from == IF offset = None THEN confirmed + 1 ELSE Max(offset, confirmed + 1)
        upto == Min(Len(stream), from + GetUpdatesLimit - 1)
    IN  Ids(from, upto)

\* server side effect of getUpdates(offset = n): ids < n are confirmed
Confirm(offset) == Max(confirmed, offset - 1)

\* lines 93-101
tg_ack_until(offset_after, reached) ==
    IF reached THEN Confirm(offset_after) ELSE confirmed

\* the number of updates seen taken for the highest update_id
UpdateCount(res) == Len(res)

\* line 309: max(u["update_id"] for u in result)
MaxUpdateId(res) ==
    LET ids == { res[i] : i \in 1..Len(res) }
    IN  CHOOSE m \in ids : \A x \in ids : x <= m

\* (last_id or 0)
OrZero(last_id) == IF last_id = None THEN 0 ELSE last_id

\* the offset of line 313 taken from the start, whatever the cursor
PollFromStart(last_id) == 1

\* the offset of line 313 without its + 1
PollFromCursor(last_id) == OrZero(last_id)

\* line 313: the offset of the poll
PollOffset(last_id) == OrZero(last_id) + 1

\* line 326 leaving max_id as it was
KeepMaxId(cur_max, update_id) == cur_max

\* line 326
NextMaxId(cur_max, update_id) == Max(cur_max, update_id)

(***************************************************************************)
(* sendMessage transport.  A post is <<"default", chat>> (tg_send(msg) to  *)
(* a chat of TG_CHAT_ID) or <<"extra", chat>> (tg_send(msg, cid)); okPosts *)
(* is the set of posts of one tg_send_to_all call that _post_telegram      *)
(* reports as delivered.                                                   *)
(***************************************************************************)
DefaultChats == {"c1"}          \* TG_CHAT_ID

\* the posts of tg_send(msg) alone
DefaultPosts(extra_ids) == {"default"} \X DefaultChats

Posts(extra_ids) == ({"default"} \X DefaultChats) \cup ({"extra"} \X extra_ids)

\* lines 67-75, tg_send(msg): ok_any over the default chats
tg_send(okPosts) == \E p \in okPosts : p[1] = "default"

\* lines 77-81: `ok = True or ok` after every extra recipient
tg_send_to_all(okPosts, extra_ids) ==
    IF extra_ids # {} THEN TRUE ELSE tg_send(okPosts)

(***************************************************************************)
(* Dates.  A date is its day number counted from 2024-01-01, a Monday:     *)
(* the order of day numbers is the order of the ISO strings the code       *)
(* compares.  A token of a command tail is a word; `digits` says that it   *)
(* is made of a 4-digit, a 2-digit and a 2-digit group between word        *)
(* boundaries, s1 and s2 are the characters between the groups.            *)
(***************************************************************************)
Tok(y, m, d, s1, s2) ==
    [digits |-> TRUE, y |-> y, m |-> m, d |-> d, s1 |-> s1, s2 |-> s2]

Word == [digits |-> FALSE, y |-> 0, m |-> 0, d |-> 0, s1 |-> "", s2 |-> ""]

IsLeap(y) == (y % 4 = 0 /\ y % 100 # 0) \/ y % 400 = 0

DaysInMonth(y, m) ==
    IF m = 2 THEN (IF IsLeap(y) THEN 29 ELSE 28)
    ELSE IF m \in {4, 6, 9, 11} THEN 30 ELSE 31

\* dt.date(y, m, d) does not raise ValueError
ValidDate(y, m, d) ==
    /\ y >= 1 /\ y <= 9999
    /\ m >= 1 /\ m <= 12
    /\ d >= 1 /\ d <= DaysInMonth(y, m)

RECURSIVE DaysBeforeMonth(_, _)
DaysBeforeMonth(y, m) ==
    IF m = 1 THEN 0 ELSE DaysBeforeMonth(y, m - 1) + DaysInMonth(y, m - 1)

\* dt.date(y, m, d).toordinal()
Ordinal(y, m, d) ==
    365 * (y - 1) + ((y - 1) \div 4) - ((y - 1) \div 100) + ((y - 1) \div 400)
        + DaysBeforeMonth(y, m) + d

\* dt.date(y, m, d).isoformat(), as a day number
DayNumber(y, m, d) == Ordinal(y, m, d) - Ordinal(2024, 1, 1)

\* line 150: DATE_TOKEN_RE matches the token
DateTokenMatch(t) == t.digits /\ t.s1 \in {"-", "/"} /\ t.s2 \in {"-", "/"}

\* lines 154-161
normalise_dates(tail) ==
    { DayNumber(tail[i].y, tail[i].m, tail[i].d) :
        i \in { j \in 1..Len(tail) : /\ DateTokenMatch(tail[j])
                                      /\ ValidDate(tail[j].y, tail[j].m, tail[j].d) } }

(***************************************************************************)
(* Inbound updates: chat, the command of _normalise_command(text) ("" for  *)
(* text that is no command) and the words of its tail.                     *)
(***************************************************************************)
Upd(chat, cmd, tail) == [chat |-> chat, cmd |-> cmd, tail |-> tail]

Plain == Upd("c1", "", << >>)

\* "/want 2024-01-03 notadate 2024-02-30"
WantDay2 == Upd("c2", "/want", << Tok(2024, 1, 3, "-", "-"), Word, Tok(2024, 2, 30, "-", "-") >>)

\* "/want 2024/01/01"
WantDay0 == Upd("c2", "/want", << Tok(2024, 1, 1, "/", "/") >>)

\* "/want 2024-01-02"
WantToday == Upd("c2", "/want", << Tok(2024, 1, 2, "-", "-") >>)

\* "/want 2024/01/01 2024-01-02"
WantPastAndToday ==
    Upd("c2", "/want", << Tok(2024, 1, 1, "/", "/"), Tok(2024, 1, 2, "-", "-") >>)

\* "/add 2024-01/02"
AddMixed == Upd("c2", "/add", << Tok(2024, 1, 2, "-", "/") >>)

\* "/want notadate 2024-13-01"
WantNothing == Upd("c2", "/want", << Word, Tok(2024, 13, 1, "-", "-") >>)

InboundUpdates ==
    { WantDay2, WantDay0, AddMixed, WantNothing, Upd("c2", "/list", << >>),
      Upd("c1", "/forget_all", << >>), Upd("c1", "/clear", << >>), Plain }

AlertUpdates ==
    { Upd("c2", "/list", << >>), Upd("c1", "/forget_all", << >>) }

(***************************************************************************)
(* The booking calendar: the bookable slots its pages offer.  A start time *)
(* is the minute of the day that its HH:MM string names.                   *)
(***************************************************************************)
SmallSlots == { << 1, 1 >>, << 2, 1 >> }
BigDay     == { << 2, t >> : t \in 1..(DefaultMaxSlotsShown + 1) }
Calendars  == { SmallSlots, SmallSlots \cup BigDay }

\* line 167: hh = int(start_hhmm.split(":")[0])
StartHour(start_hhmm) == start_hhmm \div 60

\* date.weekday(): Monday is 0, Sunday is 6; day 0 is a Monday
weekday(day_dt) == day_dt % 7

\* line 169 with the upper end of the window included
WithinFiltersThrough(day_dt, start_hhmm) ==
    LET hh == StartHour(start_hhmm)
        is_weekend == weekday(day_dt) >= 5
    IN  /\ EARLIEST_HOUR <= hh /\ hh <= LATEST_HOUR
        /\ ~(is_weekend /\ ~WEEKENDS_OK)
        /\ ~(~is_weekend /\ ~WEEKDAYS_OK)

\* lines 166-173; a start time always has the form HH:MM (line 212), so
\* the parse of line 167 does not fail
_within_filters(day_dt, start_hhmm) ==
    LET hh == StartHour(start_hhmm)
        is_weekend == weekday(day_dt) >= 5
    IN  /\ EARLIEST_HOUR <= hh /\ hh < LATEST_HOUR
        /\ ~(is_weekend /\ ~WEEKENDS_OK)
        /\ ~(~is_weekend /\ ~WEEKDAYS_OK)

\* lines 240-248: the records a page yields, one per CTA that has a start
\* time and passes the filters, in page order; the date of a record is the
\* scanned date, day name, activity and url are functions of it
RawSlots(d, yielded) ==
    LET accepted == SelectSeq(yielded, LAMBDA start : _within_filters(d, start))
    IN  [i \in 1..Len(accepted) |-> << d, accepted[i] >>]

\* the slots a set of pages offers
Offered(pgs) ==
    UNION { { << d, pgs[d][i] >> : i \in 1..Len(pgs[d]) } : d \in DOMAIN pgs }

\* the times of a set of slots of one date, ascending (line 435)
RECURSIVE SortedTimes(_)
SortedTimes(S) ==
    IF S = {} THEN << >>
    ELSE LET m == CHOOSE s \in S : \A o \in S : s[2] <= o[2]
         IN  << m >> \o SortedTimes(S \ {m})

\* a page that lists every slot of its date once, earliest first
Rendered(cal) ==
    [d \in { s[1] : s \in cal } |->
        LET entries == SortedTimes({ s \in cal : s[1] = d })
        IN  [i \in 1..Len(entries) |-> entries[i][2]]]

\* the page of a date; a date the calendar has nothing for yields nothing
PageAt(pgs, d) == IF d \in DOMAIN pgs THEN pgs[d] ELSE << >>

\* the key k of lines 252 and 280
SlotKey(s) == << s[1], s[2] >>

\* no de-duplication at all
KeepAll(slots) == slots

\* the de-duplication loops of lines 250-256 and 277-282: a record is kept
\* when no record before it has its key ("seen"), in the order met
Uniq(slots) ==
    LET first == SelectSeq([i \in 1..Len(slots) |-> i],
                           LAMBDA i : \A j \in 1..(i - 1) :
                                         SlotKey(slots[j]) # SlotKey(slots[i]))
    IN  [n \in 1..Len(first) |-> slots[first[n]]]

\* the sort key of lines 257 and 283, (date, start), compared as Python
\* compares tuples; ISO dates and HH:MM times compare as the day and the
\* time they name
KeyLess(a, b) == a[1] < b[1] \/ (a[1] = b[1] /\ a[2] < b[2])

\* list.sort is stable: a record goes after the records that are not greater
InsertByKey(sorted, s) ==
    LET before == Cardinality({ i \in 1..Len(sorted) : ~KeyLess(s, sorted[i]) })
    IN  SubSeq(sorted, 1, before) \o << s >> \o SubSeq(sorted, before + 1, Len(sorted))

\* lines 257 and 283: uniq.sort(key=lambda x: (x[0], x[2]))
RECURSIVE SortByKey(_)
SortByKey(slots) ==
    IF slots = << >> THEN << >>
    ELSE InsertByKey(SortByKey(SubSeq(slots, 1, Len(slots) - 1)), slots[Len(slots)])

\* lines 240-258
_iter_bookable_slots(d, yielded) == SortByKey(Uniq(RawSlots(d, yielded)))

\* the comparison of line 446 taken as <=
EligibleThrough(entries, cnts) ==
    SelectSeq(entries, LAMBDA e : Get(cnts, e) <= NOTIFY_LIMIT_PER_SLOT)

\* lines 444-448
Eligible(entries, cnts) ==
    SelectSeq(entries, LAMBDA e : Get(cnts, e) < NOTIFY_LIMIT_PER_SLOT)

\* lines 461-463
Increment(cnts, entries) ==
    LET ks == { entries[i] : i \in 1..Len(entries) }
    IN  [k \in DOMAIN cnts \cup ks |->
            IF k \in ks THEN Get(cnts, k) + 1 ELSE cnts[k]]

\* the slots whose line is in message m
SlotsIn(m) == { m.lines[i].slot : i \in 1..Len(m.lines) } \ {NoSlot}

(***************************************************************************)
(* Observation record.                                                     *)
(***************************************************************************)
Hist0 ==
    [ runs       |-> 0,        \* invocations started
      arrivals   |-> 0,        \* updates arrived after deployment
      handled    |-> << >>,    \* per update_id: invocations that handled it as a command
      delivered  |-> NoCounts, \* per key: invocations that delivered a message with its line
      firstHead  |-> None,     \* stream head when the first invocation polled
      reset      |-> FALSE,    \* a /forget_all or /unnotify_all was handled
      resetOk    |-> FALSE,    \* this invocation: the counter write of such a command succeeded
      cleared    |-> {},       \* this invocation: the keys at the ceiling that it cleared
      alerted    |-> {},       \* this invocation: keys whose line was in a delivered message
      postOk     |-> FALSE,    \* this invocation: some alert post was delivered
      postFail   |-> FALSE,    \* ever: some alert post was not delivered
      slotsLost  |-> FALSE,    \* ever: a counter persist of main failed
      persistFails |-> 0,      \* number of failed counter persists of main
      dupRisk    |-> FALSE,    \* ever: cursor persist left the old value and the ack failed
      cursorHigh |-> None,     \* highest value ever stored as cursor
      batchHigh  |-> 0,        \* highest update_id of the batch of the latest poll, 0 if none
      scanFailed |-> {},       \* dates whose page failed in the scan of this invocation
      scanned    |-> << >>,    \* what collect_slots returned in this invocation
      returned   |-> None,     \* what main returned last; None once handle_commands
                               \* of the next invocation is over
      notice     |-> {},       \* dates listed in the removal notice of this invocation
      sentTo     |-> {},       \* posts attempted by the latest tg_send_to_all of this invocation
      scan0      |-> {},       \* the filtered slot set of the first invocation
      steady     |-> TRUE ]    \* every invocation so far got that same slot set

ResetLocals ==
    /\ targets' = {}
    /\ notify_ids' = {}
    /\ updates' = << >>
    /\ max_id' = 0
    /\ by_date' = {}
    /\ pending' = {}
    /\ counts' = NoCounts
    /\ sent_any' = FALSE
    /\ eligible' = << >>
    /\ messages' = << >>

Config == << MAX_MSG_CHARS, MAX_SLOTS_PER_DATE_SHOWN, EARLIEST_HOUR, LATEST_HOUR,
            WEEKENDS_OK, WEEKDAYS_OK >>
Env    == << world, today, calendar, pages >>
Store  == << targetsFile, cursorFile, slotsFile >>
MainLocals == << by_date, pending, counts, sent_any, eligible, messages >>

(***************************************************************************)
(* The environment's envelope.  world.faults names the operations that may *)
(* fail: "poll" (getUpdates), "ack" (tg_ack_until), and the writes of      *)
(* "cursor", "targets" and "slots"; world.users is what chats send.  A     *)
(* sendMessage post may always fail.                                       *)
(***************************************************************************)
FaultClasses == {"poll", "ack", "cursor", "targets", "slots"}

Writes(class)   == IF class \in world.faults THEN WriteOutcomes ELSE {"ok"}
Requests(class) == IF class \in world.faults THEN BOOLEAN ELSE {TRUE}

(***************************************************************************)
(* Initial state: a fresh deployment (empty state directory) with some     *)
(* backlog already waiting in the bot's inbound stream.                    *)
(***************************************************************************)
Missing(default) == [readable |-> FALSE, data |-> default]

Backlog(n, U) == { [i \in 1..n |-> u] : u \in U }

InitAt(filters, days, budgets, caps, w, backlogs, renderings) ==
    /\ MAX_MSG_CHARS \in budgets
    /\ MAX_SLOTS_PER_DATE_SHOWN \in caps
    /\ \E f \in filters : /\ EARLIEST_HOUR = f.earliest
                          /\ LATEST_HOUR = f.latest
                          /\ WEEKENDS_OK = f.weekends
                          /\ WEEKDAYS_OK = f.weekdays
    /\ world = w
    /\ today \in days
    /\ pages \in renderings
    /\ calendar = Offered(pages)
    /\ stream \in backlogs
    /\ confirmed = 0
    /\ targetsFile = Missing({})
    /\ cursorFile = Missing(None)
    /\ slotsFile = Missing(NoCounts)
    /\ pc = "idle"
    /\ targets = {}
    /\ notify_ids = {}
    /\ updates = << >>
    /\ max_id = 0
    /\ by_date = {}
    /\ pending = {}
    /\ counts = NoCounts
    /\ sent_any = FALSE
    /\ eligible = << >>
    /\ messages = << >>
    /\ hist = [Hist0 EXCEPT !.handled = [i \in 1..Len(stream) |-> 0]]

\* lines 17-20: the filters as they are when the environment sets none
DefaultFilters ==
    [earliest |-> DefaultEarliestHour, latest |-> DefaultLatestHour,
     weekends |-> TRUE, weekdays |-> TRUE]

\* a run on Tuesday 2024-01-02 with the default filters
InitWith(budgets, caps, w, backlogs, renderings) ==
    InitAt({DefaultFilters}, {DayNumber(2024, 1, 2)}, budgets, caps, w, backlogs, renderings)

(***************************************************************************)
(* Environment.                                                            *)
(***************************************************************************)
\* a chat message reaches the bot between two invocations
Arrive ==
    /\ pc = "idle"
    /\ hist.arrivals < MaxArrivals
    /\ \E u \in world.users : stream' = Append(stream, u)
    /\ hist' = [hist EXCEPT !.arrivals = @ + 1, !.handled = Append(@, 0)]
    /\ UNCHANGED << Config, Env, confirmed, Store, pc, targets, notify_ids,
                    updates, max_id, MainLocals >>

(***************************************************************************)
(* handle_commands, lines 301-383.                                         *)
(***************************************************************************)
High(h, file) == IF file.readable THEN Max(h, file.data) ELSE h

\* lines 302-319: load, then fast-forward or poll
HandleCommandsPoll ==
    /\ pc = "idle"
    /\ hist.runs < MaxRuns
    /\ LET last_id == load_last_update_id
           h0 == [hist EXCEPT !.runs = @ + 1, !.postOk = FALSE, !.batchHigh = 0,
                              !.resetOk = FALSE, !.cleared = {}, !.alerted = {},
                              !.scanFailed = {}, !.scanned = << >>,
                              !.firstHead = IF hist.runs = 0 THEN Len(stream) ELSE @]
       IN  IF last_id = None /\ FAST_FORWARD_UPDATES
           THEN \E got \in Requests("poll"), o \in Writes("cursor"),
                   ack \in Requests("ack") :
                  LET res0 == IF got THEN tg_get_updates(None) ELSE << >>
                  IN  /\ IF res0 # << >>
                         THEN /\ cursorFile' = save_last_update_id(MaxUpdateId(res0), o)
                              /\ confirmed' = tg_ack_until(MaxUpdateId(res0) + 1, ack)
                         ELSE UNCHANGED << cursorFile, confirmed >>
                      /\ hist' = [h0 EXCEPT !.cursorHigh = High(@, cursorFile')]
                      /\ targets' = load_targets
                      /\ pc' = "prune"
                      /\ UNCHANGED << updates, max_id >>
           ELSE \E got \in Requests("poll") :
                  LET offset == PollOffset(last_id)
                      res == IF got THEN tg_get_updates(offset) ELSE << >>
                  IN  /\ confirmed' = IF got THEN Confirm(offset) ELSE confirmed
                      /\ targets' = load_targets
                      /\ updates' = res
                      /\ max_id' = IF res = << >> THEN 0 ELSE OrZero(last_id)
                      /\ pc' = IF res = << >> THEN "prune" ELSE "commands"
                      /\ hist' = [h0 EXCEPT !.batchHigh =
                                     IF res = << >> THEN 0 ELSE MaxUpdateId(res)]
                      /\ UNCHANGED cursorFile
    /\ notify_ids' = {}
    /\ UNCHANGED << Config, Env, stream, targetsFile, slotsFile, MainLocals >>

ResetCommands == {"/forget_all", "/unnotify_all"}

\* lines 325-380: one iteration of the loop over the polled updates
\* (the replies go out through tg_send; their result is not read)
HandleUpdate ==
    /\ pc = "commands"
    /\ updates # << >>
    /\ LET id  == Head(updates)
           upd == stream[id]
           cmd == upd.cmd
           parsed == normalise_dates(upd.tail)
           h1  == [hist EXCEPT !.handled[id] = IF cmd # "" THEN @ + 1 ELSE @,
                               !.reset = @ \/ cmd \in ResetCommands]
           full == { k \in DOMAIN load_notified_slots :
                        load_notified_slots[k] >= NOTIFY_LIMIT_PER_SLOT }
       IN  /\ max_id' = NextMaxId(max_id, id)
           /\ updates' = Tail(updates)
           /\ notify_ids' = IF cmd # "" THEN notify_ids \cup {upd.chat} ELSE notify_ids
           /\ IF cmd \in {"/want", "/add"} /\ parsed # {}
              THEN \E o \in Writes("targets") :
                     /\ targets' = targets \cup parsed
                     /\ targetsFile' = save_targets(targets', o)
                     /\ hist' = h1
                     /\ UNCHANGED slotsFile
              ELSE IF cmd = "/clear"
              THEN \E o \in Writes("targets") :
                     /\ targets' = {}
                     /\ targetsFile' = save_targets(targets', o)
                     /\ hist' = h1
                     /\ UNCHANGED slotsFile
              ELSE IF cmd \in ResetCommands
              THEN \E o \in Writes("slots") :
                     /\ slotsFile' = save_notified_slots(NoCounts, o)
                     /\ hist' = [h1 EXCEPT !.resetOk = @ \/ o = "ok",
                                           !.cleared = IF o = "ok" THEN @ \cup full ELSE @]
                     /\ UNCHANGED << targets, targetsFile >>
              ELSE /\ hist' = h1
                   /\ UNCHANGED << targets, targetsFile, slotsFile >>
    /\ UNCHANGED << Config, Env, stream, confirmed, cursorFile, pc, MainLocals >>

\* lines 382-383: persist the cursor, acknowledge, persist the targets
HandleCommandsReturn ==
    /\ pc = "commands"
    /\ updates = << >>
    /\ \E o1 \in Writes("cursor"), ack \in Requests("ack"), o2 \in Writes("targets") :
         /\ cursorFile' = save_last_update_id(max_id, o1)
         /\ confirmed' = tg_ack_until(max_id + 1, ack)
         /\ targetsFile' = save_targets(targets, o2)
         /\ hist' = [hist EXCEPT !.dupRisk = @ \/ (o1 = "unchanged" /\ ~ack),
                                 !.cursorHigh = High(@, cursorFile')]
    /\ max_id' = 0
    /\ pc' = "prune"
    /\ UNCHANGED << Config, Env, stream, slotsFile, targets, notify_ids,
                    updates, MainLocals >>

(***************************************************************************)
(* main, lines 415-471.                                                    *)
(***************************************************************************)
\* line 388 with today's date removed as well
ExpiredThroughToday(tgts) == { d \in tgts : d <= today }

\* line 388
Expired(tgts) == { d \in tgts : d < today }

\* lines 386-391 and 418-421: prune_expired_targets and the removal notice
\* (the notice goes out through tg_send_to_all; its result is not read)
PruneExpiredTargets ==
    /\ pc = "prune"
    /\ LET removed == Expired(targets)
       IN  IF removed # {}
           THEN \E o \in Writes("targets") :
                  /\ targets' = targets \ removed
                  /\ targetsFile' = save_targets(targets', o)
                  /\ hist' = [hist EXCEPT !.notice = removed,
                                          !.sentTo = Posts(notify_ids),
                                          !.returned = None]
           ELSE /\ hist' = [hist EXCEPT !.returned = None]
                /\ UNCHANGED << targets, targetsFile >>
    /\ pc' = "scan"
    /\ UNCHANGED << Config, Env, stream, confirmed, cursorFile, slotsFile,
                    notify_ids, updates, max_id, MainLocals >>

\* lines 267-274: the pages of today .. today + SCAN_DAYS, one after the
\* other; a page that did not become ready contributes nothing
RECURSIVE ScanFrom(_, _)
ScanFrom(offset, skipped) ==
    IF offset > SCAN_DAYS THEN << >>
    ELSE LET d == today + offset
         IN  (IF d \in skipped THEN << >>
              ELSE _iter_bookable_slots(d, PageAt(pages, d)))
             \o ScanFrom(offset + 1, skipped)

\* lines 260-284
collect_slots(skipped) == SortByKey(Uniq(ScanFrom(0, skipped)))

\* the filter of lines 424-425 left out
Unfiltered(found, tgts) == found

\* lines 424-425
FilterByTargets(found, tgts) ==
    IF tgts # {} THEN { s \in found : s[1] \in tgts } ELSE found

\* the dates of the scan range whose page has something to offer
ScanDates == { s[1] : s \in calendar }

\* lines 423-438: scan, filter by targets, group by date, load the counters.
\* On each date the page either becomes ready, or _robust_wait gives up
\* (skipped, line 272), or page.goto raises (raised, line 271): that
\* exception leaves collect_slots and main returns 1 at lines 473-476.
CollectAndFilter ==
    /\ pc = "scan"
    /\ \E raised \in {None} \cup ScanDates :
       \E skipped \in SUBSET { d \in ScanDates : raised = None \/ d < raised } :
       \E all \in { IF raised = None THEN collect_slots(skipped) ELSE << >> } :
       \E slots \in { FilterByTargets({ all[i] : i \in 1..Len(all) }, targets) } :
         LET same  == /\ hist.steady /\ raised = None
                      /\ (hist.runs = 1 \/ slots = hist.scan0)
         IN  /\ hist' = [hist EXCEPT !.steady = same,
                                     !.scan0 = IF same THEN slots ELSE {},
                                     !.scanFailed = IF raised = None THEN skipped
                                                    ELSE skipped \cup {raised},
                                     !.scanned = all,
                                     !.returned = IF raised # None THEN 1
                                                  ELSE IF slots = {} THEN 0 ELSE None,
                                     !.notice = {}, !.sentTo = {}]
             /\ IF raised # None \/ slots = {}
                THEN /\ pc' = "idle"
                     /\ ResetLocals
                ELSE /\ pc' = "send"
                     /\ by_date' = slots
                     /\ pending' = { s[1] : s \in slots }
                     /\ counts' = load_notified_slots
                     /\ sent_any' = FALSE
                     /\ UNCHANGED << targets, notify_ids, updates, max_id,
                                     eligible, messages >>
    /\ UNCHANGED << Config, Env, stream, confirmed, Store >>

\* lines 442-463: one date of the send loop
SendDate ==
    /\ pc = "send"
    /\ pending # {}
    /\ LET d       == CHOOSE x \in pending : \A y \in pending : x <= y
           entries == SortedTimes({ s \in by_date : s[1] = d })
           elig    == Eligible(entries, counts)
       IN  /\ pending' = pending \ {d}
           /\ eligible' = elig
           /\ IF elig = << >>
              THEN /\ messages' = << >>
                   /\ UNCHANGED << counts, sent_any, hist >>
              ELSE LET msgs == build_date_messages(d, elig)
                   IN  \E outs \in [1..Len(msgs) -> SUBSET Posts(notify_ids)] :
                         LET ok  == \E i \in 1..Len(msgs) :
                                       tg_send_to_all(outs[i], notify_ids)
                             got == UNION { SlotsIn(msgs[i]) :
                                            i \in { j \in 1..Len(msgs) : outs[j] # {} } }
                         IN  /\ messages' = msgs
                             /\ counts' = IF ok THEN Increment(counts, elig) ELSE counts
                             /\ sent_any' = (sent_any \/ ok)
                             /\ hist' = [hist EXCEPT
                                  !.delivered = [k \in DOMAIN @ \cup got |->
                                                   IF k \in got THEN Get(@, k) + 1 ELSE @[k]],
                                  !.sentTo = Posts(notify_ids),
                                  !.alerted = @ \cup got,
                                  !.postOk = @ \/ (\E i \in 1..Len(msgs) : outs[i] # {}),
                                  !.postFail = @ \/ (\E i \in 1..Len(msgs) :
                                                       outs[i] # Posts(notify_ids))]
    /\ UNCHANGED << Config, Env, stream, confirmed, Store, pc, targets,
                    notify_ids, updates, max_id, by_date >>

\* lines 465-471: persist the counters when something was sent, return 0
Finish ==
    /\ pc = "send"
    /\ pending = {}
    /\ IF sent_any
       THEN \E o \in Writes("slots") :
              /\ slotsFile' = save_notified_slots(counts, o)
              /\ hist' = [hist EXCEPT !.slotsLost = @ \/ o # "ok",
                                      !.persistFails = IF o # "ok" THEN @ + 1 ELSE @,
                                      !.sentTo = {}, !.returned = 0]
       ELSE /\ hist' = [hist EXCEPT !.sentTo = {}, !.returned = 0]
            /\ UNCHANGED slotsFile
    /\ pc' = "idle"
    /\ ResetLocals
    /\ UNCHANGED << Config, Env, stream, confirmed, targetsFile, cursorFile >>

(***************************************************************************)
(* Spec: the whole invocation, with a calendar that offers slots; polls,   *)
(* acks and the cursor and target writes succeed, counter writes and posts *)
(* may fail.                                                               *)
(***************************************************************************)
Init ==
    InitWith({DefaultMaxMsgChars}, {DefaultMaxSlotsShown},
             [faults |-> {"slots"}, users |-> AlertUpdates],
             { << Plain >> }, { Rendered(c) : c \in Calendars })

Next ==
    \/ Arrive
    \/ HandleCommandsPoll
    \/ HandleUpdate
    \/ HandleCommandsReturn
    \/ PruneExpiredTargets
    \/ CollectAndFilter
    \/ SendDate
    \/ Finish

Spec == Init /\ [][Next]_vars

(***************************************************************************)
(* Properties of the throttler (Spec).                                     *)
(***************************************************************************)
Delivered(k) == Get(hist.delivered, k)
Stored(k)    == Get(load_notified_slots, k)

\* C1: in an invocation where no transport call for an alert message has
\* succeeded, no counter differs from its stored value and nothing is marked
\* for the counter persist.
C1_FailedSendsLeaveCounters ==
    (pc = "send" /\ ~hist.postOk) => (~sent_any /\ counts = load_notified_slots)

\* C2 as stated: with no reset command handled, no key has been alerted in
\* more than NOTIFY_LIMIT_PER_SLOT invocations.
C2_AtMostLimit ==
    ~hist.reset => \A k \in DOMAIN hist.delivered : Delivered(k) <= NOTIFY_LIMIT_PER_SLOT

\* C2 amended: with no reset command handled and every counter persist of
\* main succeeded, no key has been alerted in more than NOTIFY_LIMIT_PER_SLOT
\* invocations; and a slot whose stored count has reached the ceiling is never
\* placed in an outbound message.
C2_AtMostLimitWhilePersisted ==
    /\ (~hist.reset /\ ~hist.slotsLost) =>
           \A k \in DOMAIN hist.delivered : Delivered(k) <= NOTIFY_LIMIT_PER_SLOT
    /\ pc = "send" =>
           \A j \in 1..Len(messages) : \A k \in SlotsIn(messages[j]) :
              Stored(k) < NOTIFY_LIMIT_PER_SLOT

\* a third invocation scans a slot alerted twice and places it in no message
C2_Witness ==
    /\ pc = "send" /\ pending = {} /\ hist.runs = NOTIFY_LIMIT_PER_SLOT + 1
    /\ ~hist.reset /\ ~hist.slotsLost
    /\ messages = << >>
    /\ \E k \in by_date : Delivered(k) = NOTIFY_LIMIT_PER_SLOT
                            /\ Stored(k) = NOTIFY_LIMIT_PER_SLOT

\* C3: after N invocations that all got the same slot set, with every post
\* delivered, every counter persist succeeded and no reset command, each key
\* of the set was alerted exactly min(N, k) times and its stored counter is
\* min(N, k), k being NOTIFY_LIMIT_PER_SLOT.
C3_ExactlyMin ==
    (/\ pc = "idle" /\ hist.runs >= 1 /\ hist.steady
     /\ ~hist.postFail /\ ~hist.reset /\ ~hist.slotsLost) =>
        \A k \in hist.scan0 :
           /\ Delivered(k) = Min(hist.runs, NOTIFY_LIMIT_PER_SLOT)
           /\ Stored(k) = Min(hist.runs, NOTIFY_LIMIT_PER_SLOT)

\* the slots the scan owes the throttler: those of every date from today on
\* whose page did not fail, filtered by the targets when there are any
Candidates ==
    { s \in calendar : /\ s[1] >= today /\ s[1] \notin hist'.scanFailed
                        /\ (targets = {} \/ s[1] \in targets) }

\* C12: a scan in which the page of some dates failed still hands the slots
\* of every other date to the throttler, and the invocation goes on to send
\* when there are any.
C12_OtherDatesStillAlerted ==
    [][ pc = "scan" =>
          /\ by_date' = Candidates
          /\ (Candidates # {} => pc' = "send") ]_vars

\* C14: every failed counter persist of main costs a key at most one extra
\* alert: between invocations and with no reset command, the alerts delivered
\* for a key exceed its stored count by at most the number of failed counter
\* persists.
C14_OnceExtraPerFailedPersist ==
    (pc = "idle" /\ ~hist.reset) =>
        \A k \in DOMAIN hist.delivered :
           Delivered(k) <= Stored(k) + hist.persistFails

\* C19: a step other than the handling of a /forget_all or /unnotify_all
\* neither lowers nor removes the stored count of any key.
C19_CountsNeverDecrease ==
    [][ ~(/\ pc = "commands" /\ updates # << >>
          /\ stream[Head(updates)].cmd \in ResetCommands) =>
           \A k \in DOMAIN load_notified_slots : (Stored(k))' >= Stored(k) ]_vars

\* C4: a step of the send loop raises the counter of a key only if in that
\* step a post succeeded for a message that holds the key's line.
C4_IncrementOnlyDelivered ==
    [][ pc = "send" =>
          \A k \in DOMAIN counts' :
             Get(counts', k) > Get(counts, k) =>
                Get(hist'.delivered, k) > Delivered(k) ]_vars

\* C23: the handling of a /forget_all or /unnotify_all whose write succeeds
\* leaves no stored count; and when an invocation that handled one returns
\* with its counters persisted, every post so far delivered, then every slot
\* of this scan that was at the ceiling before the command has had its line
\* in a delivered message of this invocation and has the stored count 1.
C23_ResetTakesEffect ==
    [][ /\ (/\ pc = "commands" /\ updates # << >>
            /\ stream[Head(updates)].cmd \in ResetCommands
            /\ hist'.resetOk)
              => (load_notified_slots)' = NoCounts
        /\ (/\ pc = "send" /\ pc' = "idle"
            /\ hist.resetOk /\ ~hist.postFail
            /\ slotsFile' = [readable |-> TRUE, data |-> counts])
              => \A k \in hist.cleared \cap by_date :
                    k \in hist.alerted /\ (Stored(k))' = 1 ]_vars

\* C24: the sendMessage calls of one tg_send_to_all call go to distinct
\* chats: no chat is posted to twice for the same message.
C24_OneCallPerChat ==
    \A p, q \in hist.sentTo : p[2] = q[2] => p = q

(***************************************************************************)
(* SpecCmd: the command processor under every failure of polls, acks and   *)
(* writes, with a calendar that offers nothing (main returns after the     *)
(* scan).                                                                  *)
(***************************************************************************)
InitCmd ==
    InitWith({DefaultMaxMsgChars}, {DefaultMaxSlotsShown},
             [faults |-> FaultClasses, users |-> InboundUpdates],
             { << >> } \cup Backlog(1, InboundUpdates)
                       \cup Backlog(GetUpdatesLimit + 1, { Upd("c2", "/list", << >>) }),
             { Rendered({}) })

NextCmd ==
    \/ Arrive
    \/ HandleCommandsPoll
    \/ HandleUpdate
    \/ HandleCommandsReturn
    \/ PruneExpiredTargets
    \/ CollectAndFilter

SpecCmd == InitCmd /\ [][NextCmd]_vars

(***************************************************************************)
(* Properties of the command processor (SpecCmd).                          *)
(***************************************************************************)
Handled(id) == hist.handled[id]
IsCommand(id) == stream[id].cmd # ""

\* C7: a write of the cursor never stores a value smaller than a value
\* stored before (hist.cursorHigh is the highest of those, None if none).
C7_CursorMonotone ==
    [][ (cursorFile' # cursorFile /\ cursorFile'.readable) =>
           cursorFile'.data >= hist.cursorHigh ]_vars

\* the fast-forward stored the stream head and a later poll stored more
C7_Witness ==
    /\ cursorFile.readable
    /\ hist.firstHead >= 1
    /\ hist.cursorHigh > hist.firstHead
    /\ cursorFile.data = hist.cursorHigh

\* C8 as stated: no update is handled as a command in more than one
\* invocation.
C8_HandledOnce ==
    \A id \in 1..Len(stream) : Handled(id) <= 1

\* C8 amended: no update is handled as a command in more than one invocation,
\* provided that at the end of every invocation that handled updates the
\* cursor write took effect or the acknowledgment reached Telegram.
C8_HandledOnceWhileRecorded ==
    ~hist.dupRisk => \A id \in 1..Len(stream) : Handled(id) <= 1

\* a command was handled, its cursor write failed, the acknowledgment went
\* through, and a later invocation has polled again
C8_Witness ==
    /\ pc = "prune" /\ hist.runs = MaxRuns
    /\ ~hist.dupRisk
    /\ \E id \in 1..Len(stream) :
          /\ Handled(id) = 1
          /\ confirmed >= id
          /\ load_last_update_id # None /\ load_last_update_id < id

\* C11 as stated: the return of handle_commands after a non-empty batch
\* leaves the highest update_id of the batch as the stored cursor.
C11_CursorAdvanced ==
    [][ (pc = "commands" /\ pc' = "prune") =>
           (cursorFile'.readable /\ cursorFile'.data = hist.batchHigh) ]_vars

\* C11 amended: the return of handle_commands after a non-empty batch hands
\* the highest update_id of the batch to save_last_update_id, whatever failed
\* while the messages were handled; the stored cursor is that value unless
\* this write itself fails (old value kept) or is torn (no readable cursor).
C11_CursorAdvancedUnlessWriteFails ==
    [][ (pc = "commands" /\ pc' = "prune") =>
           /\ max_id = hist.batchHigh
           /\ \/ cursorFile' = save_last_update_id(hist.batchHigh, "ok")
              \/ cursorFile' = save_last_update_id(hist.batchHigh, "unchanged")
              \/ cursorFile' = save_last_update_id(hist.batchHigh, "torn") ]_vars

\* a batch whose /want could not be persisted has been handled, and the
\* cursor stands at its highest update_id
C11_Witness ==
    /\ pc = "prune" /\ hist.batchHigh >= 1
    /\ cursorFile.readable /\ cursorFile.data = hist.batchHigh
    /\ targets # load_targets

\* C13: a write of targets, cursor or counters leaves the complete old or the
\* complete new record: no stored record that a load could read becomes one
\* that a load answers with its default.
C13_AtomicReplace ==
    [][ /\ targetsFile.readable => targetsFile'.readable
        /\ cursorFile.readable => cursorFile'.readable
        /\ slotsFile.readable => slotsFile'.readable ]_vars

\* the valid calendar dates among the YYYY-MM-DD and YYYY/MM/DD tokens
WantedDates(tail) ==
    { DayNumber(tail[i].y, tail[i].m, tail[i].d) :
        i \in { j \in 1..Len(tail) :
                  /\ tail[j].digits
                  /\ << tail[j].s1, tail[j].s2 >> \in { << "-", "-" >>, << "/", "/" >> }
                  /\ ValidDate(tail[j].y, tail[j].m, tail[j].d) } }

\* C17: handling a /want or /add leaves the targets at the previous targets
\* plus exactly the valid calendar dates among the YYYY-MM-DD or YYYY/MM/DD
\* tokens of its argument (the same set when there is none).
C17_GainsExactlyValidDates ==
    [][ (/\ pc = "commands" /\ updates # << >>
         /\ stream[Head(updates)].cmd \in {"/want", "/add"}) =>
           targets' = targets \cup WantedDates(stream[Head(updates)].tail) ]_vars

\* C9: no update that was in the stream when the first invocation polled is
\* ever handled as a command.
C9_BacklogNeverHandled ==
    \A id \in 1..Len(stream) : id <= hist.firstHead => Handled(id) = 0

\* C10: no command that arrived after the first invocation is passed over:
\* once the stored cursor or Telegram's confirmation covers it, it has been
\* handled.
C10_LaterCommandsHandled ==
    \A id \in 1..Len(stream) :
       (/\ hist.firstHead # None /\ id > hist.firstHead /\ IsCommand(id)
        /\ \/ confirmed >= id
           \/ (cursorFile.readable /\ cursorFile.data >= id)) =>
          Handled(id) >= 1

(***************************************************************************)
(* SpecTgt: the whole invocation with users who set target dates (a past   *)
(* date and today's); the target writes and the posts may fail.            *)
(***************************************************************************)
InitTgt ==
    InitWith({DefaultMaxMsgChars}, {DefaultMaxSlotsShown},
             [faults |-> {"targets"}, users |-> {WantPastAndToday, WantToday}],
             { << Plain >> }, { Rendered(SmallSlots) })

SpecTgt == InitTgt /\ [][Next]_vars

(***************************************************************************)
(* Properties of targets and recipients (SpecTgt).                         *)
(***************************************************************************)
\* C15: while main sends, with targets (as they stand after the commands and
\* the pruning) every slot kept for alerting and every slot placed in a
\* message has its date among them; without targets the slots kept are all
\* the slots of the dates from today on that the scan could read.
C15_TargetFilter ==
    pc = "send" =>
        IF targets # {}
        THEN /\ \A s \in by_date : s[1] \in targets
             /\ \A j \in 1..Len(messages) :
                   \A k \in SlotsIn(messages[j]) : k[1] \in targets
        ELSE by_date = { s \in calendar : s[1] >= today /\ s[1] \notin hist.scanFailed }

\* an alert for today's slot only, the other scanned date being no target
C15_Witness ==
    /\ pc = "send" /\ targets = {today}
    /\ hist.scanFailed = {}
    /\ \E s \in calendar : s[1] > today
    /\ messages # << >>
    /\ \A j \in 1..Len(messages) : \A k \in SlotsIn(messages[j]) : k[1] = today

\* every default chat and every chat of notify_ids is posted to
PostedToAll ==
    /\ \A c \in DefaultChats : << "default", c >> \in hist'.sentTo
    /\ \A c \in notify_ids : << "extra", c >> \in hist'.sentTo

C18_RecipientsGetAlerts ==
    [][ /\ (pc = "commands" /\ updates # << >> /\ IsCommand(Head(updates))) =>
              stream[Head(updates)].chat \in notify_ids'
        /\ (pc \in {"commands", "prune", "scan"} /\ pc' # "idle") =>
              notify_ids \subseteq notify_ids'
        /\ (pc = "send" /\ pc' = "send") => notify_ids' = notify_ids
        /\ (pc = "send" /\ messages' # << >> /\ pending' # pending) => PostedToAll
        /\ (pc = "prune" /\ targets' # targets) => PostedToAll ]_vars

\* an alert went out in an invocation that handled a command of chat c2
C18_Witness ==
    /\ pc = "send" /\ messages # << >>
    /\ "c2" \in notify_ids
    /\ << "extra", "c2" >> \in hist.sentTo
    /\ \E c \in DefaultChats : << "default", c >> \in hist.sentTo

(***************************************************************************)
(* SpecScan: the whole invocation over pages that yield their records in   *)
(* any order and more than once; no operation fails except posts and page  *)
(* loads.                                                                  *)
(***************************************************************************)
YieldTimes == 1..2

RawPages == UNION { [1..n -> YieldTimes] : n \in 0..MaxYield }

\* today's page yields anything, tomorrow's page nothing or one record
ScanPages ==
    { [d \in {1, 2} |-> IF d = 1 THEN r ELSE q] :
         r \in RawPages, q \in { << >>, << 1 >> } }

InitScan ==
    InitWith({DefaultMaxMsgChars}, {DefaultMaxSlotsShown},
             [faults |-> {}, users |-> {Plain}],
             { << Plain >> }, ScanPages)

SpecScan == InitScan /\ [][Next]_vars

(***************************************************************************)
(* Properties of the scan (SpecScan).                                      *)
(***************************************************************************)
\* C20: what collect_slots returns holds no two records of the same
\* (date, start_time), is ascending by (date, start_time), and holds every
\* slot that a page of the scan range which became ready yields.
C20_UniqueAndSorted ==
    LET all == hist.scanned
    IN  /\ \A i, j \in 1..Len(all) :
             i < j => /\ << all[i][1], all[i][2] >> # << all[j][1], all[j][2] >>
                      /\ ~KeyLess(all[j], all[i])
        /\ pc = "send" =>
             { all[i] : i \in 1..Len(all) } =
                { s \in calendar : /\ s[1] \in today..(today + SCAN_DAYS)
                                   /\ s[1] \notin hist.scanFailed }

\* a page that became ready yields one start time twice and a later start
\* time before an earlier one, and the scan returned slots of two dates
C20_Witness ==
    /\ pc = "send"
    /\ Len(hist.scanned) >= 3
    /\ \E d \in DOMAIN pages \ hist.scanFailed :
         /\ \E i, j \in 1..Len(pages[d]) : i < j /\ pages[d][i] = pages[d][j]
         /\ \E i, j \in 1..Len(pages[d]) : i < j /\ pages[d][i] > pages[d][j]

(***************************************************************************)
(* SpecErr: the whole invocation with a user who sets a target date, page  *)
(* loads that may raise, and acknowledgments that may fail; the writes of  *)
(* the store succeed.                                                      *)
(***************************************************************************)
InitErr ==
    InitWith({DefaultMaxMsgChars}, {DefaultMaxSlotsShown},
             [faults |-> {"ack"}, users |-> {WantToday}],
             { << Plain >> }, { Rendered(SmallSlots) })

SpecErr == InitErr /\ [][Next]_vars

HHMM(hh, mm) == hh * 60 + mm

FilterPage ==
    << HHMM(14, 30), HHMM(17, 59), HHMM(18, 0), HHMM(21, 59), HHMM(22, 0) >>

Friday   == DayNumber(2024, 1, 5)
Saturday == DayNumber(2024, 1, 6)

FilterSettings ==
    [earliest : {DefaultEarliestHour, 18}, latest : {22, DefaultLatestHour},
     weekends : BOOLEAN, weekdays : BOOLEAN]

InitFlt ==
    InitAt(FilterSettings, {Friday}, {DefaultMaxMsgChars}, {DefaultMaxSlotsShown},
           [faults |-> {}, users |-> {Plain}], { << Plain >> },
           { [d \in {Friday, Saturday} |-> FilterPage] })

SpecFlt == InitFlt /\ [][Next]_vars

(***************************************************************************)
(* Properties of the filter (SpecFlt).                                     *)
(***************************************************************************)
\* the slots in what collect_slots returned in this invocation
Scanned == { hist.scanned[i] : i \in 1..Len(hist.scanned) }

\* C21: the scan returns a slot that a page offers exactly when the slot's
\* start hour hh has EARLIEST_HOUR <= hh < LATEST_HOUR and its date is a
\* Saturday or Sunday with WEEKENDS_OK or a Monday..Friday with WEEKDAYS_OK;
\* 14:30 on a Saturday is left out under 18, 22, weekends off, and returned
\* under 0, 24, weekends on.
C21_AcceptedExactly ==
    LET Allowed(s) ==
            /\ EARLIEST_HOUR <= s[2] \div 60
            /\ s[2] \div 60 < LATEST_HOUR
            /\ (s[1] % 7 \in {5, 6} => WEEKENDS_OK)
            /\ (s[1] % 7 \in 0..4 => WEEKDAYS_OK)
        read == { s \in calendar : /\ s[1] \in today..(today + SCAN_DAYS)
                                   /\ s[1] \notin hist.scanFailed }
    IN  /\ Scanned \subseteq { s \in calendar : Allowed(s) }
        /\ pc = "send" => Scanned = { s \in read : Allowed(s) }
        /\ (EARLIEST_HOUR = 18 /\ LATEST_HOUR = 22 /\ ~WEEKENDS_OK)
              => << Saturday, HHMM(14, 30) >> \notin Scanned
        /\ (/\ pc = "send" /\ Saturday \in today..(today + SCAN_DAYS)
            /\ << Saturday, HHMM(14, 30) >> \in read
            /\ EARLIEST_HOUR = 0 /\ LATEST_HOUR = 24 /\ WEEKENDS_OK)
              => << Saturday, HHMM(14, 30) >> \in Scanned

\* window 18..22, weekends on and weekdays off, both pages read: the scan
\* returned the Saturday's 18:00 and 21:59 and nothing else
C21_Witness ==
    /\ pc = "send"
    /\ EARLIEST_HOUR = 18 /\ LATEST_HOUR = 22 /\ WEEKENDS_OK /\ ~WEEKDAYS_OK
    /\ hist.scanFailed = {}
    /\ Scanned = { << Saturday, HHMM(18, 0) >>, << Saturday, HHMM(21, 59) >> }

(***************************************************************************)
(* SpecMsg: build_date_messages alone, over the configurations of          *)
(* MAX_MSG_CHARS and MAX_SLOTS_PER_DATE_SHOWN (both read from the          *)
(* environment at lines 32 and 35), every weekday and every number of      *)
(* eligible entries up to MaxEntries.                                      *)
(***************************************************************************)
MsgBudgets == {200, 500, DefaultMaxMsgChars}
MsgCaps    == {DefaultMaxSlotsShown, 50}

InitMsg ==
    InitWith(MsgBudgets, MsgCaps, [faults |-> {}, users |-> {}], { << >> }, { Rendered({}) })

\* line 449, for the eligible entries of one date
BuildDateMessages ==
    /\ \E d \in 0..6, n \in 1..MaxEntries :
         LET elig == [i \in 1..n |-> << d, i >>]
         IN  /\ eligible' = elig
             /\ messages' = build_date_messages(d, elig)
    /\ UNCHANGED << Config, Env, stream, confirmed, Store, pc, targets, notify_ids,
                    updates, max_id, by_date, pending, counts, sent_any, hist >>

NextMsg == BuildDateMessages

SpecMsg == InitMsg /\ [][NextMsg]_vars

(***************************************************************************)
(* Properties of the message builder (SpecMsg).                            *)
(***************************************************************************)
\* the places (message, line) where the line of a slot stands
Places(slot) ==
    { jp \in UNION { { << j, q >> : q \in 1..Len(messages[j].lines) } :
                     j \in 1..Len(messages) } :
        messages[jp[1]].lines[jp[2]].slot = slot }

\* the length of the one message that would hold the header and every line
OneMessageLen ==
    LET ls == SlotLines(eligible)
        RECURSIVE Sum(_)
        Sum(i) == IF i = 0 THEN 0 ELSE ls[i].len + 1 + Sum(i - 1)
    IN  HeaderLen(eligible[1][1]) + Sum(Len(ls)) - 1

Shown == Min(Len(eligible), MAX_SLOTS_PER_DATE_SHOWN)

\* C5 as stated: every eligible slot stands as a line in exactly one of the
\* returned messages, and there are at least two messages when header and
\* lines exceed the budget.
C5_EverySlotOnce ==
    messages # << >> =>
        /\ \A i \in 1..Len(eligible) : Cardinality(Places(eligible[i])) = 1
        /\ (OneMessageLen > MAX_MSG_CHARS => Len(messages) >= 2)

\* C5 amended: each of the first min(total, MAX_SLOTS_PER_DATE_SHOWN) eligible
\* slots stands as a line in exactly one returned message, the slots beyond the
\* cap stand in none and are counted by one "…and N more" line, and there are
\* at least two messages when header and lines exceed the budget.
C5_ShownSlotsOnce ==
    messages # << >> =>
        /\ \A i \in 1..Shown : Cardinality(Places(eligible[i])) = 1
        /\ \A i \in (Shown + 1)..Len(eligible) : Places(eligible[i]) = {}
        /\ Cardinality(Places(NoSlot)) = IF Len(eligible) > Shown THEN 1 ELSE 0
        /\ (OneMessageLen > MAX_MSG_CHARS => Len(messages) >= 2)

\* a date with more eligible slots than the cap, split over several messages
C5_Witness ==
    /\ Len(eligible) > MAX_SLOTS_PER_DATE_SHOWN
    /\ Len(messages) >= 2
    /\ OneMessageLen > MAX_MSG_CHARS

\* C6: every message returned by build_date_messages, continuation messages
\* included, is at most MAX_MSG_CHARS characters long.
C6_WithinBudget ==
    \A j \in 1..Len(messages) : messages[j].len <= MAX_MSG_CHARS

====
